---- MODULE Spec2Model ----
(***************************************************************************)
(* Model of the chat client of firebase-expo-guide: the two ChatScreen     *)
(* components of src/app/chat.tsx (the cache-enabled screen, called        *)
(* version 1 here, lines 65-590, and the plain screen, version 2, lines    *)
(* 822-1121) running against one chat room document and its message        *)
(* collection in the hosted document store.                                *)
(***************************************************************************)
EXTENDS Integers, Sequences, FiniteSets, TLC

\* ------------------------------------------------------------------ bounds
MaxMsgs == 2          \* message documents the collection may hold
MaxUnread == 2        \* largest unread counter a send may write
MaxLen == 2           \* length of the lists fed to the merge
MaxId == 3            \* message identifiers of the lists fed to the merge
MaxSaves == 2         \* cache writes of one screen that may be in flight
MaxRuns == 2          \* chat-list callbacks that may be running at once
MaxUid == 2           \* length of a user identifier

\* --------------------------------------------------------------- universe
Users == {"A", "B"}
Emojis == {"e1", "e2"}    \* two of the emoji the context menu offers
Sessions == {"s1", "s2"}
Sender == "s1"        \* the screen whose sends in a row are counted
Viewer == "s2"        \* the screen whose opening is followed
\* what the user types: characters are " " (white space) and "h"
Texts == { <<>>, <<" ", "h">> }
ListUser == "A"       \* the user signed in on the chat-list screen
Partners == {"B", "C"}    \* the users A may have a conversation with

VARIABLES
  chatRoom,   \* document chatRooms/{chatId}
  msgDocs,    \* collection chatRooms/{chatId}/messages, ordered by timestamp
  user,       \* auth.currentUser.uid of each session
  open,       \* the session shows a ChatScreen
  ver,        \* which ChatScreen the session shows (1 or 2)
  message,    \* compose buffer (useState message)
  sending,    \* useState sending
  pc,         \* the await sendMessage is suspended at
  sentText,   \* message.trim() as the running sendMessage captured it
  prev,       \* chat room snapshot returned by sendMessage's getDoc
  mark,       \* the await markMessagesAsRead is suspended at
  dirty,      \* a snapshot of the message query is due to the listener
  batch,      \* write batches committed by the listener and not yet settled
  hist,       \* what happened since the viewer's screen opened
  streak,     \* successful sends of the sender's screen in a row (0..2)
  base,       \* recipient's unread counter when the streak began
  before,     \* the backend when the sender's running send started
  typed,      \* what the user typed last into the sender's compose buffer
  messages,       \* useState messages of the viewer's cache-enabled screen
  localMessages,  \* useState localMessages of that screen
  loading,        \* useState loading of that screen
  load,           \* the await loadLocalMessages is suspended at
  due1,           \* a snapshot is due to the listener of the merge effect
  stored,         \* AsyncStorage item chat_{chatId}; <<>> when absent
  saves,          \* AsyncStorage.setItem calls of saveMessagesLocally in flight
  feed,           \* the message list of the snapshot delivered last
  reactions,  \* field reactions of the message document reacted to
  rpc,        \* the await handleReaction is suspended at
  emoji,      \* argument emoji of the running handleReaction
  seen,       \* field reactions as handleReaction's getDoc returned it
  roomDocs,     \* the chat rooms of ListUser, as the list query returns them
  userDocs,     \* the partners that have a document in collection users
  listOpen,     \* the ChatsScreen is mounted
  owed,         \* a snapshot of the list query is due to its listener
  runs,         \* the invocations of the async list callback not finished
  chatRooms,    \* useState chatRooms of the ChatsScreen
  unreadTotal,  \* useState unreadTotal
  listLoading,  \* useState loading of the ChatsScreen
  latest,       \* the snapshot delivered last to the mounted ChatsScreen
  accounts,     \* the uids of the two signed-up users, one device each
  usersList,    \* useState users of each device's UsersScreen (the ids)
  userId,       \* route parameter userId of each device's chat screen
  madeRooms     \* the chat room documents created by first sends

core == << chatRoom, msgDocs, user, open, ver, message, sending, pc,
           sentText, prev, mark, dirty, batch >>
history == << hist, streak, base, before, typed >>
screen == << messages, localMessages, loading, load, due1, stored, saves,
             feed >>
react == << reactions, rpc, emoji, seen >>
chats == << roomDocs, userDocs, listOpen, owed, runs, chatRooms, unreadTotal,
            listLoading, latest >>
people == << accounts, usersList, userId, madeRooms >>
vars == << core, history, screen, react, chats, people >>

\* ------------------------------------------------------------ pure helpers
IsSpace(c) == c = " "

RECURSIVE TrimStart(_)
TrimStart(t) ==
  IF t = <<>> THEN <<>>
  ELSE IF IsSpace(Head(t)) THEN TrimStart(Tail(t)) ELSE t

RECURSIVE TrimEnd(_)
TrimEnd(t) ==
  IF t = <<>> THEN <<>>
  ELSE IF IsSpace(t[Len(t)]) THEN TrimEnd(SubSeq(t, 1, Len(t) - 1)) ELSE t

\* String.prototype.trim
Trim(t) == TrimEnd(TrimStart(t))

\* the other participant: the route parameter userId
Peer(u) == CHOOSE v \in Users : v # u

\* The unreadCount map is kept total: every read of a key in the code is
\* "unreadCount?.[k] || 0", so a key that is absent and a key that holds 0
\* are the same value to the program.
NoUnread == [x \in Users |-> 0]

\* chatRoomData.unreadCount?.[k] || 0
Unread(room, k) == IF room.exists THEN room.unreadCount[k] ELSE 0

\* { ...m, [k]: v }
Put(m, k, v) == [m EXCEPT ![k] = v]

NoRoom == [exists |-> FALSE]

\* no send of the sender is running
NoSend == [room |-> NoRoom, msgs |-> <<>>]

\* what sendMessage uses of the snapshot getDoc returns: exists() and
\* data().unreadCount
ReadRoom(room) ==
  IF room.exists THEN [exists |-> TRUE, unreadCount |-> room.unreadCount]
  ELSE NoRoom

\* the lastMessage object of a send
LastMessage(u, t) == [text |-> t, senderId |-> u, read |-> FALSE]

\* the document written by addDoc
NewMsg(u, t) == [text |-> t, senderId |-> u, read |-> FALSE]

\* a setDoc that forgets to seed the recipient's counter
NewRoomUnseeded(u, t) ==
  [exists |-> TRUE,
   participants |-> << u, Peer(u) >>,
   lastMessage |-> LastMessage(u, t),
   unreadCount |-> NoUnread]

\* setDoc(chatRoomRef, {participants, lastMessage, createdAt, unreadCount})
NewRoom(u, t) ==
  [exists |-> TRUE,
   participants |-> << u, Peer(u) >>,
   lastMessage |-> LastMessage(u, t),
   unreadCount |-> Put(NoUnread, Peer(u), 1)]

\* an increment applied by the backend to the stored counter, whatever
\* the point read returned
BumpStored(p, u) ==
  Put(chatRoom.unreadCount, Peer(u), Unread(chatRoom, Peer(u)) + 1)

\* unreadCount: { ...prev.unreadCount, [userId]: (prev.unreadCount[userId] || 0) + 1 }
BumpUnread(p, u) == Put(p.unreadCount, Peer(u), Unread(p, Peer(u)) + 1)

\* updateDoc(chatRoomRef, ...) of an existing room, per screen version
UpdatedRoom(room, p, u, t, v) ==
  IF v = 1
  THEN [room EXCEPT !.unreadCount = BumpUnread(p, u)]
  ELSE [room EXCEPT !.unreadCount = BumpUnread(p, u),
                    !.lastMessage = LastMessage(u, t)]

\* a filter that forgets the sender test
UnreadIdsAnySender(docs, u) ==
  { i \in 1..Len(docs) : ~docs[i].read }

\* newMessages.filter(m => m.senderId !== uid && !m.read), as document ids
UnreadIds(docs, u) ==
  { i \in 1..Len(docs) : docs[i].senderId # u /\ ~docs[i].read }

\* a batch that flips the flag instead of setting it
CommitBatchFlip(docs, ids) ==
  [i \in 1..Len(docs) |-> IF i \in ids THEN [docs[i] EXCEPT !.read = ~@]
                                      ELSE docs[i]]

\* batch.update(messageRef, { read: true }) for every id, committed at once
CommitBatch(docs, ids) ==
  [i \in 1..Len(docs) |-> IF i \in ids THEN [docs[i] EXCEPT !.read = TRUE]
                                      ELSE docs[i]]

\* the test of markMessagesAsRead on the chat room it read
SummaryUnread(room, u) ==
  room.exists /\ room.lastMessage.senderId = Peer(u) /\ ~room.lastMessage.read

\* updateDoc(chatRoomRef, {'lastMessage.read': true, 'unreadCount.<uid>': 0})
MarkedRoom(room, u) ==
  [room EXCEPT !.lastMessage.read = TRUE,
               !.unreadCount = Put(room.unreadCount, u, 0)]

\* messageList / newMessages: { id: doc.id, ...doc.data() } of every document
\* of the snapshot; the document id of a message is its place in msgDocs
Snapshot(docs) ==
  [i \in 1..Len(docs) |->
     [id |-> i, text |-> docs[i].text, senderId |-> docs[i].senderId,
      read |-> docs[i].read]]

\* mergedMessages.findIndex(m => m.id === newMsg.id); 0 stands for -1
FindIndex(list, id) ==
  IF \E i \in 1..Len(list) : list[i].id = id
  THEN CHOOSE i \in 1..Len(list) :
         /\ list[i].id = id
         /\ \A j \in 1..(i - 1) : list[j].id # id
  ELSE 0

\* a loop body that moves the message found to the end of the list
MergeOneMoved(merged, newMsg) ==
  Append(SelectSeq(merged, LAMBDA m : m.id # newMsg.id), newMsg)

\* a loop body that pushes without looking the identifier up
MergeOnePush(merged, newMsg) == Append(merged, newMsg)

\* the body of messageList.forEach: push, or replace in place
MergeOne(merged, newMsg) ==
  LET existingIndex == FindIndex(merged, newMsg.id)
  IN IF existingIndex = 0 THEN Append(merged, newMsg)
     ELSE [merged EXCEPT ![existingIndex] = newMsg]

RECURSIVE MergeAll(_, _)
MergeAll(merged, list) ==
  IF list = <<>> THEN merged
  ELSE MergeAll(MergeOne(merged, Head(list)), Tail(list))

\* the list the merge listener hands to setMessages
Merged(local, list) ==
  IF Len(local) > 0 THEN MergeAll(local, list) ELSE list

\* users.splice(users.indexOf(uid), 1): the list without the first u
RECURSIVE RemoveFirst(_, _)
RemoveFirst(l, u) ==
  IF l = <<>> THEN <<>>
  ELSE IF Head(l) = u THEN Tail(l)
  ELSE << Head(l) >> \o RemoveFirst(Tail(l), u)

\* reactions[e].filter(id => id !== uid)
RECURSIVE Without(_, _)
Without(l, u) ==
  IF l = <<>> THEN <<>>
  ELSE IF Head(l) = u THEN Without(Tail(l), u)
  ELSE << Head(l) >> \o Without(Tail(l), u)

\* users.indexOf(uid) !== -1
Has(l, u) == \E i \in 1..Len(l) : l[i] = u

\* the list of key k after the removal loop, per screen version
Stripped(m, k, u, v) ==
  IF v = 1 THEN RemoveFirst(m[k], u) ELSE Without(m[k], u)

\* a removal loop that leaves emptied keys in the map
DeletedNone(m, u, v) == {}

\* the keys the removal loop deletes: version 1 looks at the length only
\* where it found the user, version 2 at every key
Deleted(m, u, v) ==
  { k \in DOMAIN m :
      Stripped(m, k, u, v) = <<>> /\ (v = 1 => Has(m[k], u)) }

\* a handler that skips the removal loop
RemovedNothing(m, u, v) == m

\* the map after the removal loop
Removed(m, u, v) ==
  [k \in DOMAIN m \ Deleted(m, u, v) |-> Stripped(m, k, u, v)]

\* the map handleReaction writes: removal loop, then push on the target key
Reacted(m, u, e, v) ==
  LET r == Removed(m, u, v)
  IN [k \in DOMAIN r \cup {e} |->
        IF k = e THEN Append(IF e \in DOMAIN r THEN r[e] ELSE <<>>, u)
        ELSE r[k]]

\* ------------------------------------------------------------ bookkeeping
\* every listener of the message query is owed a snapshot after a change
Notify(docs2) ==
  dirty' = [t \in Sessions |-> IF docs2 # msgDocs THEN open[t] ELSE dirty[t]]

\* ------------------------------------------------------------------- Init
\* no conversation yet
InitBackend ==
  /\ chatRoom = NoRoom
  /\ msgDocs = <<>>

InitSessions ==
  /\ user \in { [s \in Sessions |-> IF s = Sender THEN "A" ELSE u] : u \in Users }
  /\ ver \in [Sessions -> 1..2]
  /\ user[Viewer] = user[Sender] => ver[Sender] < ver[Viewer]
  /\ open = [s \in Sessions |-> FALSE]
  /\ message = [s \in Sessions |-> <<>>]
  /\ sending = [s \in Sessions |-> FALSE]
  /\ pc = [s \in Sessions |-> "idle"]
  /\ sentText = [s \in Sessions |-> <<>>]
  /\ prev = [s \in Sessions |-> NoRoom]
  /\ mark = [s \in Sessions |-> "none"]
  /\ dirty = [s \in Sessions |-> FALSE]
  /\ batch = [s \in Sessions |-> {}]
  /\ hist = "fresh"
  /\ streak = 0
  /\ base = -1
  /\ before = NoSend
  /\ typed = <<>>

InitCore ==
  /\ InitBackend
  /\ InitSessions

\* no cache-enabled screen has been mounted yet and nothing is persisted
InitScreen ==
  /\ messages = <<>>
  /\ localMessages = <<>>
  /\ loading = TRUE
  /\ load = "none"
  /\ due1 = FALSE
  /\ stored = <<>>
  /\ saves = <<>>
  /\ feed = <<>>

\* a map with no key
NoMap == [k \in {} |-> <<>>]

\* the message reacted to carries no reaction, no handleReaction runs
InitReact ==
  /\ reactions = NoMap
  /\ rpc = [s \in Sessions |-> "idle"]
  /\ emoji = [s \in Sessions |-> "none"]
  /\ seen = [s \in Sessions |-> NoMap]

\* the ChatsScreen is not mounted; ListUser has no conversation yet
InitList ==
  /\ roomDocs = <<>>
  /\ userDocs = Partners
  /\ listOpen = FALSE
  /\ owed = FALSE
  /\ runs = <<>>
  /\ chatRooms = <<>>
  /\ unreadTotal = 0
  /\ listLoading = TRUE
  /\ latest = <<>>

\* the code units of "B", "a" and "b"; Underscore that of "_"
Units == {66, 97, 98}
Underscore == 95

\* user identifiers: strings of one to MaxUid code units
Uids == UNION { [1..n -> Units] : n \in 1..MaxUid }

Devices == 1..2

\* two users have signed up; no UsersScreen has fetched, no chat was opened
InitPeople ==
  /\ accounts = << << 97 >>, << 98 >> >>
  /\ usersList = [d \in Devices |-> {}]
  /\ userId = [d \in Devices |-> <<>>]
  /\ madeRooms = {}

Init == InitCore /\ InitScreen /\ InitReact /\ InitList /\ InitPeople

\* ---------------------------------------------------------------- screens
\* mounting a ChatScreen: the effects register the listener and, on the
\* cache-enabled screen, start markMessagesAsRead
Open(s) ==
  /\ ~open[s]
  /\ open' = [open EXCEPT ![s] = TRUE]
  /\ mark' = [mark EXCEPT ![s] = IF ver[s] = 1 THEN "getDoc" ELSE "none"]
  /\ dirty' = [dirty EXCEPT ![s] = TRUE]
  /\ UNCHANGED << chatRoom, msgDocs, user, sentText, ver, message, sending, pc, prev,
                  batch >>

\* unmounting, once the screen's calls have settled: return () =>
\* unsubscribe(); the component state is dropped
Close(s) ==
  /\ open[s] /\ pc[s] = "idle" /\ mark[s] \in {"none", "done"}
  /\ batch[s] = {}
  /\ open' = [open EXCEPT ![s] = FALSE]
  /\ dirty' = [dirty EXCEPT ![s] = FALSE]
  /\ message' = [message EXCEPT ![s] = <<>>]
  /\ mark' = [mark EXCEPT ![s] = "none"]
  /\ UNCHANGED << chatRoom, msgDocs, user, sentText, ver, sending, pc, prev, batch >>

\* onChangeText={setMessage}, while no send is running
Type(s, t) ==
  /\ open[s] /\ ~sending[s]
  /\ message[s] # t
  /\ message' = [message EXCEPT ![s] = t]
  /\ UNCHANGED << chatRoom, msgDocs, user, sentText, open, ver, sending, pc, prev,
                  mark, dirty, batch >>

\* the plain screen's TextInput stays editable while a send runs
TypeAhead(s, t) ==
  /\ open[s] /\ sending[s] /\ ver[s] = 2
  /\ message[s] # t
  /\ message' = [message EXCEPT ![s] = t]
  /\ UNCHANGED << chatRoom, msgDocs, user, sentText, open, ver, sending, pc,
                  prev, mark, dirty, batch >>

\* ------------------------------------------------------------ sendMessage
\* an entry guard that does not look at the lock
CanSendUnlocked(s) == Trim(message[s]) # <<>>

\* the entry guard: if (!message.trim() || ... || sending) return
CanSend(s) == Trim(message[s]) # <<>> /\ ~sending[s]

\* sendMessage called while the entry guard holds it off: return
SendIgnored(s) ==
  /\ open[s]
  /\ ~CanSend(s)
  /\ UNCHANGED core

\* entry guard, setSending(true), and the call of getDoc(chatRoomRef)
SendStart(s) ==
  /\ open[s]
  /\ CanSend(s)
  /\ sending' = [sending EXCEPT ![s] = TRUE]
  /\ sentText' = [sentText EXCEPT ![s] = Trim(message[s])]
  /\ pc' = [pc EXCEPT ![s] = "getDoc"]
  /\ UNCHANGED << chatRoom, msgDocs, user, open, ver, message, prev, mark,
                  dirty, batch >>

\* catch (error) { console.error } finally { setSending(false) }
\* a catch that clears the compose buffer
SendFailedCleared(s) ==
  /\ pc' = [pc EXCEPT ![s] = "idle"]
  /\ sending' = [sending EXCEPT ![s] = FALSE]
  /\ sentText' = [sentText EXCEPT ![s] = <<>>]
  /\ prev' = [prev EXCEPT ![s] = NoRoom]
  /\ message' = [message EXCEPT ![s] = <<>>]

SendFailed(s) ==
  /\ pc' = [pc EXCEPT ![s] = "idle"]
  /\ sending' = [sending EXCEPT ![s] = FALSE]
  /\ sentText' = [sentText EXCEPT ![s] = <<>>]
  /\ prev' = [prev EXCEPT ![s] = NoRoom]
  /\ UNCHANGED message

GetDocOk(s) ==
  /\ pc[s] = "getDoc"
  /\ prev' = [prev EXCEPT ![s] = ReadRoom(chatRoom)]
  /\ pc' = [pc EXCEPT ![s] = "write"]
  /\ UNCHANGED << chatRoom, msgDocs, user, sentText, open, ver, message, sending,
                  mark, dirty, batch >>

GetDocFail(s) ==
  /\ pc[s] = "getDoc"
  /\ SendFailed(s)
  /\ UNCHANGED << chatRoom, msgDocs, user, open, ver, mark, dirty, batch >>

\* setDoc of a new room, or updateDoc of the room that getDoc returned
WriteRoom(s) ==
  IF ~prev[s].exists
  THEN NewRoom(user[s], sentText[s])
  ELSE UpdatedRoom(chatRoom, prev[s], user[s], sentText[s], ver[s])

WriteOk(s) ==
  /\ pc[s] = "write"
  /\ Unread(prev[s], Peer(user[s])) < MaxUnread
  /\ chatRoom' = WriteRoom(s)
  /\ pc' = [pc EXCEPT ![s] = "addDoc"]
  /\ prev' = [prev EXCEPT ![s] = NoRoom]
  /\ UNCHANGED << msgDocs, user, sentText, open, ver, message, sending, mark, dirty,
                  batch >>

WriteFail(s) ==
  /\ pc[s] = "write"
  /\ SendFailed(s)
  /\ UNCHANGED << chatRoom, msgDocs, user, open, ver, mark, dirty, batch >>

\* the await that follows a successful addDoc
AfterAddDoc(v) == IF v = 1 THEN "lastMsg" ELSE "idle"

\* an end of the send that keeps the lock
SendDoneLocked(s) ==
  /\ message' = [message EXCEPT ![s] = <<>>]
  /\ sending' = sending
  /\ sentText' = [sentText EXCEPT ![s] = <<>>]

\* setMessage(''), and finally { setSending(false) }
SendDone(s) ==
  /\ message' = [message EXCEPT ![s] = <<>>]
  /\ sending' = [sending EXCEPT ![s] = FALSE]
  /\ sentText' = [sentText EXCEPT ![s] = <<>>]

\* an addDoc that does not wait for the chat room write
AtAddDocEarly(s) == pc[s] \in {"write", "addDoc"}

\* addDoc is called once the await of setDoc/updateDoc has returned
AtAddDoc(s) == pc[s] = "addDoc"

\* addDoc(messagesRef, newMsg); version 2 then finishes the send
AddDocOk(s) ==
  /\ AtAddDoc(s)
  /\ Len(msgDocs) < MaxMsgs
  /\ msgDocs' = Append(msgDocs, NewMsg(user[s], sentText[s]))
  /\ Notify(msgDocs')
  /\ pc' = [pc EXCEPT ![s] = AfterAddDoc(ver[s])]
  /\ IF pc'[s] = "idle" THEN SendDone(s)
                        ELSE UNCHANGED << message, sending, sentText >>
  /\ UNCHANGED << chatRoom, user, open, ver, prev, mark, batch >>

AddDocFail(s) ==
  /\ pc[s] = "addDoc"
  /\ SendFailed(s)
  /\ UNCHANGED << chatRoom, msgDocs, user, open, ver, mark, dirty, batch >>

\* version 1: updateDoc(chatRoomRef, { lastMessage }) and the end of the send
LastMsgOk(s) ==
  /\ pc[s] = "lastMsg"
  /\ chatRoom' = [chatRoom EXCEPT
                    !.lastMessage = LastMessage(user[s], sentText[s])]
  /\ pc' = [pc EXCEPT ![s] = "idle"]
  /\ SendDone(s)
  /\ UNCHANGED << msgDocs, user, open, ver, prev, mark, dirty, batch >>

LastMsgFail(s) ==
  /\ pc[s] = "lastMsg"
  /\ SendFailed(s)
  /\ UNCHANGED << chatRoom, msgDocs, user, open, ver, mark, dirty, batch >>

\* ------------------------------------------------------------ read marking
\* the listener's callback: collect the unread messages of the snapshot and
\* commit one batch for them (batch.commit() is not awaited)
OnSnapshot(s) ==
  /\ open[s] /\ dirty[s]
  /\ dirty' = [dirty EXCEPT ![s] = FALSE]
  /\ batch' = [batch EXCEPT ![s] =
       IF UnreadIds(msgDocs, user[s]) = {} THEN @
       ELSE @ \cup {UnreadIds(msgDocs, user[s])}]
  /\ UNCHANGED << chatRoom, msgDocs, user, sentText, open, ver, message, sending, pc,
                  prev, mark >>

BatchOk(s, ids) ==
  /\ ids \in batch[s]
  /\ batch' = [batch EXCEPT ![s] = @ \ {ids}]
  /\ msgDocs' = CommitBatch(msgDocs, ids)
  /\ Notify(msgDocs')
  /\ UNCHANGED << chatRoom, user, sentText, open, ver, message, sending, pc, prev,
                  mark >>

BatchFail(s, ids) ==
  /\ ids \in batch[s]
  /\ batch' = [batch EXCEPT ![s] = @ \ {ids}]
  /\ UNCHANGED << chatRoom, msgDocs, user, sentText, open, ver, message, sending, pc,
                  prev, mark, dirty >>

\* markMessagesAsRead: getDoc(chatRoomRef) and the test on lastMessage
MarkGetDocOk(s) ==
  /\ mark[s] = "getDoc"
  /\ mark' = [mark EXCEPT ![s] =
       IF SummaryUnread(chatRoom, user[s]) THEN "update" ELSE "done"]
  /\ UNCHANGED << chatRoom, msgDocs, user, sentText, open, ver, message, sending, pc,
                  prev, dirty, batch >>

MarkGetDocFail(s) ==
  /\ mark[s] = "getDoc"
  /\ mark' = [mark EXCEPT ![s] = "done"]
  /\ UNCHANGED << chatRoom, msgDocs, user, sentText, open, ver, message, sending, pc,
                  prev, dirty, batch >>

MarkUpdateOk(s) ==
  /\ mark[s] = "update"
  /\ chatRoom' = MarkedRoom(chatRoom, user[s])
  /\ mark' = [mark EXCEPT ![s] = "done"]
  /\ UNCHANGED << msgDocs, user, sentText, open, ver, message, sending, pc, prev,
                  dirty, batch >>

MarkUpdateFail(s) ==
  /\ mark[s] = "update"
  /\ mark' = [mark EXCEPT ![s] = "done"]
  /\ UNCHANGED << chatRoom, msgDocs, user, sentText, open, ver, message, sending, pc,
                  prev, dirty, batch >>

\* --------------------------------------------------------- handleReaction
\* handleReaction(messageId, emoji) on a displayed message: getDoc called
ReactStart(s, e) ==
  /\ open[s] /\ rpc[s] = "idle"
  /\ rpc' = [rpc EXCEPT ![s] = "getDoc"]
  /\ emoji' = [emoji EXCEPT ![s] = e]
  /\ UNCHANGED << reactions, seen >>
  /\ UNCHANGED core

\* await getDoc(messageRef): messageData.reactions || {}
ReactGetDocOk(s) ==
  /\ rpc[s] = "getDoc"
  /\ seen' = [seen EXCEPT ![s] = reactions]
  /\ rpc' = [rpc EXCEPT ![s] = "update"]
  /\ UNCHANGED << reactions, emoji >>
  /\ UNCHANGED core

\* the handler ends without a write
ReactEnd(s) ==
  /\ rpc' = [rpc EXCEPT ![s] = "idle"]
  /\ emoji' = [emoji EXCEPT ![s] = "none"]
  /\ seen' = [seen EXCEPT ![s] = NoMap]

ReactGetDocFail(s) ==
  /\ rpc[s] = "getDoc"
  /\ ReactEnd(s)
  /\ UNCHANGED reactions
  /\ UNCHANGED core

\* await updateDoc(messageRef, { reactions }): the field is replaced
ReactUpdateOk(s) ==
  /\ rpc[s] = "update"
  /\ reactions' = Reacted(seen[s], user[s], emoji[s], ver[s])
  /\ ReactEnd(s)
  /\ UNCHANGED core

ReactUpdateFail(s) ==
  /\ rpc[s] = "update"
  /\ ReactEnd(s)
  /\ UNCHANGED reactions
  /\ UNCHANGED core

\* ------------------------------------------------- cache-enabled screen
\* The viewer's version 1 screen: its displayed list, its cache and its two
\* listeners of the message query.  An entry of saves is one run of
\* saveMessagesLocally waiting for AsyncStorage.setItem: the list it
\* captured, and whether that array is the one localMessages holds (React
\* skips a state update that sets the value the state already holds).

\* [auth.currentUser.uid, userId].sort().join('_'): the two participants in
\* a fixed order, whichever of them is signed in
ChatId(u) == {u, Peer(u)}

\* the AsyncStorage key of the conversation viewed by user u
CacheKey(u) == << "chat_", ChatId(u) >>

\* the render branch that returns the spinner instead of the message list
ShowsSpinner == loading

\* a save effect that does not run while a save is waiting
SaveEffectOnce(list, same) ==
  IF Len(list) = 0 \/ saves # <<>> THEN saves
  ELSE Append(saves, [list |-> list, same |-> same])

\* useEffect(saveMessagesLocally, [messages]) after setMessages(list)
SaveEffect(list, same) ==
  IF Len(list) = 0 THEN saves
  ELSE Append(saves, [list |-> list, same |-> same])

\* mounting the screen: useState initial values, loadLocalMessages started,
\* both listeners registered
ScreenOpen ==
  /\ ver[Viewer] = 1
  /\ Open(Viewer)
  /\ saves = <<>>
  /\ messages' = <<>>
  /\ localMessages' = <<>>
  /\ loading' = TRUE
  /\ load' = "getItem"
  /\ due1' = TRUE
  /\ feed' = <<>>
  /\ UNCHANGED << stored, saves >>

\* unmounting, once the storage calls have settled
ScreenClose ==
  /\ Close(Viewer)
  /\ load # "getItem" /\ saves = <<>>
  /\ messages' = <<>>
  /\ localMessages' = <<>>
  /\ loading' = TRUE
  /\ load' = "none"
  /\ due1' = FALSE
  /\ feed' = <<>>
  /\ UNCHANGED << stored, saves >>

\* loadLocalMessages after AsyncStorage.getItem resolved: a stored list
\* becomes localMessages and messages; the merge effect re-subscribes
LoadOk ==
  /\ load = "getItem"
  /\ Len(saves) < MaxSaves
  /\ load' = "done"
  /\ IF stored # <<>>
     THEN /\ localMessages' = stored
          /\ messages' = stored
          /\ saves' = SaveEffect(stored, TRUE)
          /\ due1' = TRUE
     ELSE UNCHANGED << localMessages, messages, saves, due1 >>
  /\ UNCHANGED << loading, stored, feed >>
  /\ UNCHANGED core

LoadFail ==
  /\ load = "getItem"
  /\ load' = "done"
  /\ UNCHANGED << messages, localMessages, loading, due1, stored, saves,
                  feed >>
  /\ UNCHANGED core

\* the callback of the merge effect's listener, handed messageList = list
Deliver1(list) ==
  /\ due1
  /\ Len(saves) < MaxSaves
  /\ messages' = Merged(localMessages, list)
  /\ loading' = FALSE
  /\ saves' = SaveEffect(messages', FALSE)
  /\ feed' = list
  /\ due1' = FALSE
  /\ UNCHANGED << localMessages, load, stored >>
  /\ UNCHANGED core

Snap1 == open[Viewer] /\ Deliver1(Snapshot(msgDocs))

\* the callback of the read-marking effect's listener: setMessages of the
\* snapshot's list, and the batch of OnSnapshot
Snap2 ==
  /\ OnSnapshot(Viewer)
  /\ Len(saves) < MaxSaves
  /\ messages' = Snapshot(msgDocs)
  /\ loading' = FALSE
  /\ saves' = SaveEffect(messages', FALSE)
  /\ feed' = Snapshot(msgDocs)
  /\ UNCHANGED << localMessages, load, due1, stored >>

\* AsyncStorage.setItem resolved, then setLocalMessages(messages): a new
\* localMessages re-subscribes the merge effect's listener.  The storage
\* serves the calls of a screen in the order they were made, so the getItem
\* of the mount settles before any setItem.
SaveOk ==
  /\ saves # <<>> /\ load # "getItem"
  /\ stored' = Head(saves).list
  /\ IF Head(saves).same
     THEN /\ saves' = Tail(saves)
          /\ UNCHANGED << localMessages, due1 >>
     ELSE /\ saves' = [i \in 1..(Len(saves) - 1) |->
                        [saves[i + 1] EXCEPT !.same = FALSE]]
          /\ localMessages' = Head(saves).list
          /\ due1' = TRUE
  /\ UNCHANGED << messages, loading, load, feed >>
  /\ UNCHANGED core

SaveFail ==
  /\ saves # <<>> /\ load # "getItem"
  /\ saves' = Tail(saves)
  /\ UNCHANGED << messages, localMessages, loading, load, due1, stored,
                  feed >>
  /\ UNCHANGED core

\* a change of the message collection is owed to the merge listener too
Notify1 ==
  /\ due1' = IF msgDocs' # msgDocs THEN open[Viewer] ELSE due1
  /\ UNCHANGED << messages, localMessages, loading, load, stored, saves,
                  feed >>

\* ---------------------------------------------------------- chat list
\* The ChatsScreen of src/app/(tabs)/chats.tsx.  A document of the list
\* query is [peer, time, unread]: the participant that is not ListUser,
\* lastMessage.timestamp in milliseconds (0 when the field is missing) and
\* unreadCount[ListUser].  The query has no orderBy: a snapshot lists the
\* documents by document identifier, B's room before C's.

\* the room of a partner, as the list query may return it
RoomDoc(p, t, n) == [peer |-> p, time |-> t, unread |-> n]

\* the chat rooms of ListUser the backend may hold
RoomSets ==
  { b \o c :
      b \in { <<>>, << RoomDoc("B", 1, 0) >>, << RoomDoc("B", 1, 1) >> },
      c \in { <<>>, << RoomDoc("C", 2, 1) >>, << RoomDoc("C", 0, 1) >> } }

\* d put into a list sorted by time descending, behind the entries that do
\* not compare greater (Array.prototype.sort is stable)
RECURSIVE Placed(_, _)
Placed(d, sorted) ==
  IF sorted = <<>> THEN << d >>
  ELSE IF d.time - Head(sorted).time > 0 THEN << d >> \o sorted
  ELSE << Head(sorted) >> \o Placed(d, Tail(sorted))

\* snapshot.docs.sort((a, b) => bTime - aTime)
RECURSIVE SortedDocs(_)
SortedDocs(docs) ==
  IF docs = <<>> THEN <<>>
  ELSE Placed(docs[Len(docs)], SortedDocs(SubSeq(docs, 1, Len(docs) - 1)))

\* an invocation of the callback that has just been handed snapshot docs
NewRun(docs) ==
  [docs |-> SortedDocs(docs), i |-> 1, rooms |-> <<>>, totalUnread |-> 0,
   live |-> TRUE]

\* a pass of the loop that counts the unread messages ahead of the lookup
LookedCounted(r, found, failed) ==
  LET d == r.docs[r.i] IN
  IF failed \/ ~found
  THEN [r EXCEPT !.i = @ + 1, !.totalUnread = @ + d.unread]
  ELSE [r EXCEPT !.i = @ + 1,
                 !.rooms = Append(@, d),
                 !.totalUnread = @ + d.unread]

\* one pass of the for loop of run r, its getDoc having settled: found is
\* userDoc.exists(), failed is a rejected getDoc (inner catch, continue)
Looked(r, found, failed) ==
  LET d == r.docs[r.i] IN
  IF failed \/ ~found THEN [r EXCEPT !.i = @ + 1]
  ELSE [r EXCEPT !.i = @ + 1,
                 !.rooms = Append(@, d),
                 !.totalUnread = @ + d.unread]

\* the end of the callback: setChatRooms, setUnreadTotal, setLoading(false);
\* React drops a state update of a component that is no longer mounted
Finish(r) ==
  IF r.live
  THEN /\ chatRooms' = r.rooms
       /\ unreadTotal' = r.totalUnread
       /\ listLoading' = FALSE
  ELSE UNCHANGED << chatRooms, unreadTotal, listLoading >>

\* mounting the ChatsScreen: useState initial values, onSnapshot registered
ListOpen ==
  /\ ~listOpen
  /\ listOpen' = TRUE
  /\ owed' = TRUE
  /\ chatRooms' = <<>>
  /\ unreadTotal' = 0
  /\ listLoading' = TRUE
  /\ latest' = <<>>
  /\ UNCHANGED << roomDocs, userDocs, runs >>

\* an unmount that leaves the listener registered
ListCloseLeaky ==
  /\ listOpen
  /\ listOpen' = FALSE
  /\ runs' = [k \in 1..Len(runs) |-> [runs[k] EXCEPT !.live = FALSE]]
  /\ chatRooms' = <<>>
  /\ unreadTotal' = 0
  /\ listLoading' = TRUE
  /\ latest' = <<>>
  /\ UNCHANGED << roomDocs, userDocs, owed >>

\* unmounting: return () => unsubscribe(); the component state is dropped,
\* the invocations of the callback that are awaiting a getDoc go on
ListClose ==
  /\ listOpen
  /\ listOpen' = FALSE
  /\ owed' = FALSE
  /\ runs' = [k \in 1..Len(runs) |-> [runs[k] EXCEPT !.live = FALSE]]
  /\ chatRooms' = <<>>
  /\ unreadTotal' = 0
  /\ listLoading' = TRUE
  /\ latest' = <<>>
  /\ UNCHANGED << roomDocs, userDocs >>

\* a send or a read marking of some screen changes the rooms of ListUser;
\* no code deletes a chat room
RoomsChange(new) ==
  /\ new # roomDocs
  /\ \A i \in 1..Len(roomDocs) :
       \E j \in 1..Len(new) : new[j].peer = roomDocs[i].peer
  /\ roomDocs' = new
  /\ owed' = listOpen
  /\ UNCHANGED << userDocs, listOpen, runs, chatRooms, unreadTotal,
                  listLoading, latest >>

\* the listener is handed a snapshot: the callback runs up to its first
\* await, or to its end when the snapshot is empty
ListSnap ==
  /\ owed
  /\ Len(runs) < MaxRuns
  /\ owed' = FALSE
  /\ latest' = roomDocs
  /\ IF roomDocs = <<>>
     THEN /\ Finish(NewRun(roomDocs))
          /\ UNCHANGED runs
     ELSE /\ runs' = Append(runs, NewRun(roomDocs))
          /\ UNCHANGED << chatRooms, unreadTotal, listLoading >>
  /\ UNCHANGED << roomDocs, userDocs, listOpen >>

\* runs without its k-th entry
Dropped(k) == [j \in 1..(Len(runs) - 1) |-> IF j < k THEN runs[j]
                                            ELSE runs[j + 1]]

\* the getDoc of the k-th running callback settles; the callback goes on to
\* its next await or, after the last document, to its end
Lookup(k, failed) ==
  /\ k \in 1..Len(runs)
  /\ LET r == Looked(runs[k], runs[k].docs[runs[k].i].peer \in userDocs,
                     failed)
     IN IF r.i > Len(r.docs)
        THEN /\ runs' = Dropped(k)
             /\ Finish(r)
        ELSE /\ runs' = [runs EXCEPT ![k] = r]
             /\ UNCHANGED << chatRooms, unreadTotal, listLoading >>
  /\ UNCHANGED << roomDocs, userDocs, listOpen, owed, latest >>

\* ------------------------------------------------------ user directory
\* The UsersScreen (src/unnamed/part_001) and the way a conversation is
\* reached from it.  A user identifier is a string, here the sequence of its
\* code units.

\* a < b as Array.prototype.sort without a comparator decides it: by code
\* units, a proper prefix first
RECURSIVE Less(_, _)
Less(a, b) ==
  IF b = <<>> THEN FALSE
  ELSE IF a = <<>> THEN TRUE
  ELSE IF Head(a) # Head(b) THEN Head(a) < Head(b)
  ELSE Less(Tail(a), Tail(b))

\* a pair left in the order it was written
SortPairNone(pair) == pair

\* [x, y].sort()
SortPair(pair) ==
  IF Less(pair[2], pair[1]) THEN << pair[2], pair[1] >> ELSE pair

\* pair.join('_')
Join(pair) == pair[1] \o << Underscore >> \o pair[2]

\* const chatId = [auth.currentUser.uid, userId].sort().join('_')
DerivedId(uid, other) == Join(SortPair(<< uid, other >>))

\* field uid of the document users/{id}: signUp, signIn and handleSave write
\* email, name, bio, phoneNumber, createdAt, lastSeen, updatedAt and no uid
NoField == << 0 >>
UidField(id) == NoField

\* the ids fetchUsers pushes: every document of users but those whose field
\* uid is the signed-in user's identifier
Offered(uid) ==
  { accounts[d] : d \in { e \in Devices : UidField(accounts[e]) # uid } }

\* fetchUsers resolved: setUsers(usersWithChatStatus)
FetchUsersOk(d) ==
  /\ usersList' = [usersList EXCEPT ![d] = Offered(accounts[d])]
  /\ UNCHANGED << accounts, userId, madeRooms >>

\* a getDocs of fetchUsers was rejected: users stays as it is
FetchUsersFail(d) ==
  /\ d \in Devices
  /\ UNCHANGED << accounts, usersList, userId, madeRooms >>

\* handleChatPress(item.id): the chat screen opens with userId = id
ChatPress(d, id) ==
  /\ id \in usersList[d]
  /\ userId' = [userId EXCEPT ![d] = id]
  /\ UNCHANGED << accounts, usersList, madeRooms >>

\* leaving the chat screen
ChatBack(d) ==
  /\ userId[d] # <<>>
  /\ userId' = [userId EXCEPT ![d] = <<>>]
  /\ UNCHANGED << accounts, usersList, madeRooms >>

\* the first send of device d in the conversation it shows: getDoc found no
\* document, setDoc creates chatRooms/{chatId} with participants
FirstSend(d) ==
  /\ userId[d] # <<>>
  /\ \A r \in madeRooms : r.id # DerivedId(accounts[d], userId[d])
  /\ madeRooms' = madeRooms \cup
       { [id |-> DerivedId(accounts[d], userId[d]),
          participants |-> << accounts[d], userId[d] >>] }
  /\ UNCHANGED << accounts, usersList, userId >>

\* ---------------------------------------------------------- history
\* The history variables hist, streak, base and before record what a step
\* did; no action reads them.
Started(s) == pc[s] = "idle" /\ pc'[s] = "getDoc"
Succeeded(s) == pc[s] # "idle" /\ pc'[s] = "idle" /\ message'[s] = <<>>
Aborted(s) == pc[s] # "idle" /\ pc'[s] = "idle" /\ message'[s] # <<>>
Wrote(s) == pc[s] = "write" /\ pc'[s] = "addDoc"
Marked(s) == mark[s] = "update" /\ mark'[s] = "done" /\ chatRoom' # chatRoom

NoScreen == UNCHANGED screen

NoReact == UNCHANGED react

NoList == UNCHANGED << chats, people >>

NoHist == UNCHANGED history /\ NoReact /\ NoList

NoTrack == NoHist /\ NoScreen

\* the sender's run of sends; base = -1: no run is being followed
TrackSends ==
  LET peer == Peer(user[Sender])
      cut == \/ Aborted(Sender)
             \/ ~open'[Sender]
             \/ \E t \in Sessions : user[t] = peer /\ Marked(t)
      fresh == Started(Sender) /\ (streak # 1 \/ base = -1)
  IN /\ streak' = IF cut \/ fresh THEN 0
                  ELSE IF Succeeded(Sender) /\ base # -1 THEN streak + 1
                  ELSE streak
     /\ base' = IF cut THEN -1
                ELSE IF fresh THEN Unread(chatRoom, peer)
                ELSE base
     /\ UNCHANGED << hist, before, typed >>
     /\ NoScreen /\ NoReact /\ NoList

\* the backend as the sender's running send found it
TrackBefore ==
  /\ before' = IF Started(Sender) THEN [room |-> chatRoom, msgs |-> msgDocs]
               ELSE IF pc'[Sender] = "idle" THEN NoSend
               ELSE before
  /\ UNCHANGED << hist, streak, base, typed >>
  /\ NoScreen /\ NoReact /\ NoList

\* the sender's send, at a step of kind "type" (the user edits the buffer),
\* "ok" (a call of the send resolved), "fail" (it rejected) or "step":
\*   hist = "sending"  a send passed the entry guard and has not ended
\*   hist = "sent"     the last send ended with every call resolved
\*   hist = "failed"   the last send ended in its catch
\* and typed follows what the user typed, emptied when a send succeeds
TrackOutcome(kind) ==
  LET ended == pc[Sender] # "idle" /\ pc'[Sender] = "idle" IN
  /\ hist' = IF ~open'[Sender] THEN "fresh"
             ELSE IF Started(Sender) THEN "sending"
             ELSE IF ended /\ kind = "ok" THEN "sent"
             ELSE IF ended /\ kind = "fail" THEN "failed"
             ELSE IF kind = "type" /\ hist # "sending" THEN "fresh"
             ELSE hist
  /\ typed' = IF ~open'[Sender] THEN <<>>
              ELSE IF kind = "type" THEN message'[Sender]
              ELSE IF ended /\ kind = "ok" THEN <<>>
              ELSE typed
  /\ UNCHANGED << streak, base, before >>
  /\ NoScreen /\ NoReact /\ NoList

\* hist after a step of handleReaction of session s (wrote: its updateDoc
\* resolved):
\*   "raced"  the write replaced a map other than the one the handler read
\*   "moved"  undisturbed write; the user was in another emoji's list
\*   "clean"  undisturbed write otherwise
TrackReact(s, wrote) ==
  /\ hist' =
       IF ~wrote THEN "fresh"
       ELSE IF seen[s] # reactions THEN "raced"
       ELSE IF \E k \in DOMAIN reactions \ {emoji[s]} :
                 Has(reactions[k], user[s]) THEN "moved"
       ELSE "clean"
  /\ UNCHANGED << streak, base, before, typed >>
  /\ NoScreen /\ NoList

\* hist, at a step of session s (failed: a read-marking call of s failed):
\*   "fresh"  since the viewer's screen opened the backend was written by
\*            the viewer's read marking only
\*   "stale"  a send or another session wrote the backend
\*   "peer"   another session added a message while the screen was open
\*   "fail"   a read-marking call of the viewer failed
TrackViewer(s, failed) ==
  /\ hist' =
       IF ~open'[Viewer] \/ ~open[Viewer] THEN "fresh"
       ELSE IF hist = "fail" \/ (s = Viewer /\ failed) THEN "fail"
       ELSE IF s # Viewer /\ Len(msgDocs') > Len(msgDocs) THEN "peer"
       ELSE IF hist = "fresh" /\ (s # Viewer \/ pc' # pc)
               /\ (chatRoom' # chatRoom \/ msgDocs' # msgDocs) THEN "stale"
       ELSE hist
  /\ UNCHANGED << streak, base, before, typed >>
  /\ NoScreen /\ NoReact /\ NoList

\* hist, on the cache-enabled screen, at a step of kind
\*   "change" (setMessages ran), "ok" / "fail" (a setItem settled), "none":
\*   "fresh"    the screen was opened or closed
\*   "pending"  the save of the latest change waits for setItem
\*   "skipped"  the latest change displayed an empty list, nothing saved
\*   "saved"    the save of the latest change resolved
\*   "failed"   the save of the latest change was rejected
TrackSave(kind) ==
  /\ hist' =
       IF ~open'[Viewer] \/ ~open[Viewer] THEN "fresh"
       ELSE IF kind = "change"
         THEN (IF messages' = <<>> THEN "skipped" ELSE "pending")
       ELSE IF kind = "ok" /\ hist = "pending" /\ saves' = <<>> THEN "saved"
       ELSE IF kind = "fail" /\ hist = "pending" /\ saves' = <<>>
         THEN "failed"
       ELSE hist
  /\ UNCHANGED << streak, base, before, typed >>
  /\ NoReact /\ NoList

\* hist, at a step of the chat list (failed: a getDoc of a callback was
\* rejected): "fail" once a lookup failed since the ChatsScreen was mounted
TrackList(failed) ==
  /\ hist' = IF listOpen' # listOpen THEN "fresh"
             ELSE IF failed THEN "fail"
             ELSE hist
  /\ UNCHANGED << streak, base, before, typed >>

\* a step of the chat list leaves the chat screens alone
NoChat == UNCHANGED core /\ NoScreen /\ NoReact /\ UNCHANGED people

\* hist = "ignored" after a call of sendMessage that returned at its entry
\* guard, "step" after any other step of the sender's screen
TrackPress(ignored) ==
  /\ hist' = IF ignored THEN "ignored" ELSE "step"
  /\ UNCHANGED << streak, base, before, typed >>
  /\ NoScreen /\ NoReact /\ NoList

\* hist = "both" from the step after which the sends of both screens have
\* read the chat room as absent and not yet written it, until a later send
\* starts or a read marking writes the room
TrackFirst(s) ==
  /\ hist' =
       IF \E t \in Sessions : Marked(t) THEN "fresh"
       ELSE IF \A t \in Sessions : pc'[t] = "write" /\ ~prev'[t].exists
         THEN "both"
       ELSE IF Started(s) THEN "fresh"
       ELSE hist
  /\ UNCHANGED << streak, base, before, typed >>
  /\ NoScreen /\ NoReact /\ NoList

\* ------------------------------------------------------------------- Next
\* sends and conversation-summary read marking of the two screens
Next ==
  \E s \in Sessions :
    \/ Open(s) /\ NoTrack
    \/ Close(s) /\ NoTrack
    \/ (\E t \in Texts : Type(s, t)) /\ NoTrack
    \/ SendStart(s) /\ NoTrack
    \/ GetDocOk(s) /\ NoTrack
    \/ GetDocFail(s) /\ NoTrack
    \/ WriteOk(s) /\ NoTrack
    \/ WriteFail(s) /\ NoTrack
    \/ AddDocOk(s) /\ NoTrack
    \/ AddDocFail(s) /\ NoTrack
    \/ LastMsgOk(s) /\ NoTrack
    \/ LastMsgFail(s) /\ NoTrack
    \/ MarkGetDocOk(s) /\ NoTrack
    \/ MarkGetDocFail(s) /\ NoTrack
    \/ MarkUpdateOk(s) /\ NoTrack
    \/ MarkUpdateFail(s) /\ NoTrack

Spec == Init /\ [][Next]_vars

\* the screens of A and B, the sender's run of sends recorded
InitRun == Init /\ user[Viewer] = "B"

NextRun ==
  \E s \in Sessions :
    \/ Open(s) /\ TrackSends
    \/ Close(s) /\ TrackSends
    \/ (\E t \in Texts : Type(s, t)) /\ TrackSends
    \/ SendStart(s) /\ TrackSends
    \/ GetDocOk(s) /\ TrackSends
    \/ GetDocFail(s) /\ TrackSends
    \/ WriteOk(s) /\ TrackSends
    \/ WriteFail(s) /\ TrackSends
    \/ AddDocOk(s) /\ TrackSends
    \/ AddDocFail(s) /\ TrackSends
    \/ LastMsgOk(s) /\ TrackSends
    \/ LastMsgFail(s) /\ TrackSends
    \/ MarkGetDocOk(s) /\ TrackSends
    \/ MarkGetDocFail(s) /\ TrackSends
    \/ MarkUpdateOk(s) /\ TrackSends
    \/ MarkUpdateFail(s) /\ TrackSends

SpecRun == InitRun /\ [][NextRun]_vars

\* one screen alone, the backend at the start of its send recorded
NextSolo ==
  \E s \in {Sender} :
    \/ Open(s) /\ TrackBefore
    \/ Close(s) /\ TrackBefore
    \/ (\E t \in Texts : Type(s, t)) /\ TrackBefore
    \/ SendStart(s) /\ TrackBefore
    \/ GetDocOk(s) /\ TrackBefore
    \/ GetDocFail(s) /\ TrackBefore
    \/ WriteOk(s) /\ TrackBefore
    \/ WriteFail(s) /\ TrackBefore
    \/ AddDocOk(s) /\ TrackBefore
    \/ AddDocFail(s) /\ TrackBefore
    \/ LastMsgOk(s) /\ TrackBefore
    \/ LastMsgFail(s) /\ TrackBefore
    \/ MarkGetDocOk(s) /\ TrackBefore
    \/ MarkGetDocFail(s) /\ TrackBefore

InitSolo == Init /\ user[Viewer] = "B"

SpecSolo == InitSolo /\ [][NextSolo]_vars

\* sender A and viewer B: sends that succeed, summary read marking, and the
\* viewer's message listener; the viewer's history recorded
InitRead == Init /\ user[Viewer] = "B"

NextRead ==
  \E s \in Sessions :
    \/ Open(s) /\ TrackViewer(s, FALSE)
    \/ Close(s) /\ TrackViewer(s, FALSE)
    \/ (\E t \in Texts : Type(s, t)) /\ TrackViewer(s, FALSE)
    \/ SendStart(s) /\ TrackViewer(s, FALSE)
    \/ GetDocOk(s) /\ TrackViewer(s, FALSE)
    \/ WriteOk(s) /\ TrackViewer(s, FALSE)
    \/ AddDocOk(s) /\ TrackViewer(s, FALSE)
    \/ LastMsgOk(s) /\ TrackViewer(s, FALSE)
    \/ MarkGetDocOk(s) /\ TrackViewer(s, FALSE)
    \/ MarkGetDocFail(s) /\ TrackViewer(s, TRUE)
    \/ MarkUpdateOk(s) /\ TrackViewer(s, FALSE)
    \/ MarkUpdateFail(s) /\ TrackViewer(s, TRUE)
    \/ s = Viewer /\ OnSnapshot(s) /\ TrackViewer(s, FALSE)
    \/ s = Viewer /\ (\E ids \in batch[s] : BatchOk(s, ids)) /\ TrackViewer(s, FALSE)
    \/ s = Viewer /\ (\E ids \in batch[s] : BatchFail(s, ids)) /\ TrackViewer(s, TRUE)

SpecRead == InitRead /\ [][NextRead]_vars

\* one screen sending, with the user typing ahead on the plain screen; every
\* call of the backend settles
InitSend == Init /\ user[Viewer] = "B" /\ ver[Viewer] = 1

Settle ==
  \E s \in {Sender} :
    \/ GetDocOk(s) /\ TrackOutcome("ok")
    \/ GetDocFail(s) /\ TrackOutcome("fail")
    \/ WriteOk(s) /\ TrackOutcome("ok")
    \/ WriteFail(s) /\ TrackOutcome("fail")
    \/ AddDocOk(s) /\ TrackOutcome("ok")
    \/ AddDocFail(s) /\ TrackOutcome("fail")
    \/ LastMsgOk(s) /\ TrackOutcome("ok")
    \/ LastMsgFail(s) /\ TrackOutcome("fail")

NextSend ==
  \/ Open(Sender) /\ TrackOutcome("step")
  \/ Close(Sender) /\ TrackOutcome("step")
  \/ (\E t \in Texts : Type(Sender, t)) /\ TrackOutcome("type")
  \/ (\E t \in Texts : TypeAhead(Sender, t)) /\ TrackOutcome("type")
  \/ SendStart(Sender) /\ TrackOutcome("step")
  \/ MarkGetDocOk(Sender) /\ TrackOutcome("step")
  \/ MarkGetDocFail(Sender) /\ TrackOutcome("step")
  \/ Settle

SpecSend == InitSend /\ [][NextSend]_vars /\ WF_vars(Settle)

\* the screens of A and B sending, no call failing
NextFirst ==
  \E s \in Sessions :
    \/ Open(s) /\ TrackFirst(s)
    \/ Close(s) /\ TrackFirst(s)
    \/ (\E t \in Texts : Type(s, t)) /\ TrackFirst(s)
    \/ SendStart(s) /\ TrackFirst(s)
    \/ GetDocOk(s) /\ TrackFirst(s)
    \/ WriteOk(s) /\ TrackFirst(s)
    \/ AddDocOk(s) /\ TrackFirst(s)
    \/ LastMsgOk(s) /\ TrackFirst(s)
    \/ MarkGetDocOk(s) /\ TrackFirst(s)
    \/ MarkUpdateOk(s) /\ TrackFirst(s)

SpecFirst == InitRead /\ [][NextFirst]_vars

\* the sender's screen with every call of sendMessage, also the calls its
\* entry guard turns away
NextPress ==
  \E s \in {Sender} :
    \/ Open(s) /\ TrackPress(FALSE)
    \/ Close(s) /\ TrackPress(FALSE)
    \/ (\E t \in Texts : Type(s, t)) /\ TrackPress(FALSE)
    \/ (\E t \in Texts : TypeAhead(s, t)) /\ TrackPress(FALSE)
    \/ SendIgnored(s) /\ TrackPress(TRUE)
    \/ SendStart(s) /\ TrackPress(FALSE)
    \/ MarkGetDocOk(s) /\ TrackPress(FALSE)
    \/ MarkGetDocFail(s) /\ TrackPress(FALSE)
    \/ GetDocOk(s) /\ TrackPress(FALSE)
    \/ GetDocFail(s) /\ TrackPress(FALSE)
    \/ WriteOk(s) /\ TrackPress(FALSE)
    \/ WriteFail(s) /\ TrackPress(FALSE)
    \/ AddDocOk(s) /\ TrackPress(FALSE)
    \/ AddDocFail(s) /\ TrackPress(FALSE)
    \/ LastMsgOk(s) /\ TrackPress(FALSE)
    \/ LastMsgFail(s) /\ TrackPress(FALSE)

SpecPress == InitSend /\ [][NextPress]_vars

\* reactions of the two screens to the one message of a conversation
InitPosted ==
  /\ chatRoom = NewRoom("A", << "h" >>)
  /\ msgDocs = << NewMsg("A", << "h" >>) >>
  /\ InitSessions /\ InitScreen /\ InitReact /\ InitList /\ InitPeople

NextReact ==
  \E s \in Sessions :
    \/ Open(s) /\ NoReact /\ TrackReact(s, FALSE)
    \/ (\E e \in Emojis : ReactStart(s, e)) /\ TrackReact(s, FALSE)
    \/ ReactGetDocOk(s) /\ TrackReact(s, FALSE)
    \/ ReactGetDocFail(s) /\ TrackReact(s, FALSE)
    \/ ReactUpdateOk(s) /\ TrackReact(s, TRUE)
    \/ ReactUpdateFail(s) /\ TrackReact(s, FALSE)

SpecReact == InitPosted /\ [][NextReact]_vars

\* the merge of the merge listener, for every cached list and every snapshot
Item(i, r) == [id |-> i, text |-> << "h" >>, senderId |-> "A", read |-> r]

Items == { Item(i, r) : i \in 1..MaxId, r \in BOOLEAN }

\* the lists of at most MaxLen messages with distinct identifiers
Lists ==
  UNION { { l \in [1..n -> Items] :
              \A i, j \in 1..n : i # j => l[i].id # l[j].id } :
          n \in 0..MaxLen }

InitMerge ==
  /\ InitCore /\ InitReact /\ InitList /\ InitPeople
  /\ user[Viewer] = "B" /\ ver = [s \in Sessions |-> 1]
  /\ messages = <<>>
  /\ localMessages \in Lists
  /\ loading = TRUE
  /\ load = "done"
  /\ due1 = TRUE
  /\ stored = localMessages
  /\ saves = <<>>
  /\ feed = <<>>

NextMerge == (\E list \in Lists : Deliver1(list)) /\ NoHist

SpecMerge == InitMerge /\ [][NextMerge]_vars

\* viewer B on the cache-enabled screen, sender A sending
InitView == Init /\ user[Viewer] = "B" /\ ver[Viewer] = 1

NextView ==
  \/ Open(Sender) /\ NoTrack
  \/ Close(Sender) /\ NoTrack
  \/ (\E t \in Texts : Type(Sender, t)) /\ NoTrack
  \/ SendStart(Sender) /\ NoTrack
  \/ GetDocOk(Sender) /\ NoTrack
  \/ WriteOk(Sender) /\ NoTrack
  \/ AddDocOk(Sender) /\ Notify1 /\ NoHist
  \/ LastMsgOk(Sender) /\ NoTrack
  \/ MarkGetDocOk(Viewer) /\ NoTrack
  \/ MarkUpdateOk(Viewer) /\ NoTrack
  \/ (\E ids \in batch[Viewer] : BatchOk(Viewer, ids)) /\ Notify1
       /\ NoHist
  \/ ScreenOpen /\ TrackSave("none")
  \/ ScreenClose /\ TrackSave("none")
  \/ LoadOk /\ TrackSave(IF stored # <<>> THEN "change" ELSE "none")
  \/ LoadFail /\ TrackSave("none")
  \/ Snap1 /\ TrackSave("change")
  \/ Snap2 /\ TrackSave("change")
  \/ SaveOk /\ TrackSave("ok")
  \/ SaveFail /\ TrackSave("fail")

SpecView == InitView /\ [][NextView]_vars

\* the steps the runtime owes the cache-enabled screen: the storage answers
\* and a listener is handed the snapshot due to it
ScreenStep ==
  \/ LoadOk /\ TrackSave(IF stored # <<>> THEN "change" ELSE "none")
  \/ Snap1 /\ TrackSave("change")
  \/ Snap2 /\ TrackSave("change")
  \/ SaveOk /\ TrackSave("ok")

\* SpecView with those steps taken whenever they stay possible
SpecLoop == InitView /\ [][NextView]_vars /\ WF_vars(ScreenStep)

\* the chat list of A, and the mounting and unmounting of a plain screen
\* (the sender's) and of a cache-enabled screen (the viewer's)
InitChats ==
  /\ InitCore /\ InitScreen /\ InitReact /\ InitPeople
  /\ user[Viewer] = "B" /\ ver[Sender] = 2 /\ ver[Viewer] = 1
  /\ roomDocs \in RoomSets
  /\ userDocs \in SUBSET Partners
  /\ listOpen = FALSE
  /\ owed = FALSE
  /\ runs = <<>>
  /\ chatRooms = <<>>
  /\ unreadTotal = 0
  /\ listLoading = TRUE
  /\ latest = <<>>

\* the chat list is unmounted and none of its callbacks is running
ListIdle == ~listOpen /\ runs = <<>>

\* no ChatScreen is mounted
NoneOpen == \A s \in Sessions : ~open[s]

\* The chat list and the chat screens share no state; one of them is in
\* front at a time.
NextList ==
  \/ NoneOpen /\ ListOpen /\ NoChat /\ TrackList(FALSE)
  \/ ListClose /\ NoChat /\ TrackList(FALSE)
  \/ (\E new \in RoomSets : RoomsChange(new)) /\ NoChat /\ TrackList(FALSE)
  \/ ListSnap /\ NoChat /\ TrackList(FALSE)
  \/ (\E k \in 1..Len(runs) : Lookup(k, FALSE)) /\ NoChat /\ TrackList(FALSE)
  \/ (\E k \in 1..Len(runs) : Lookup(k, TRUE)) /\ NoChat /\ TrackList(TRUE)
  \/ ListIdle /\ Open(Sender) /\ NoTrack
  \/ OnSnapshot(Sender) /\ NoTrack
  \/ Close(Sender) /\ NoTrack
  \/ ListIdle /\ ScreenOpen /\ NoHist
  \/ LoadOk /\ NoHist
  \/ LoadFail /\ NoHist
  \/ MarkGetDocOk(Viewer) /\ NoTrack
  \/ Snap1 /\ NoHist
  \/ Snap2 /\ NoHist
  \/ ScreenClose /\ NoHist

SpecList == InitChats /\ [][NextList]_vars

\* two signed-up users, each on a device: the directory, the chat screen
\* reached from it, and the first send
InitUsers ==
  /\ InitCore /\ InitScreen /\ InitReact /\ InitList
  /\ user[Viewer] = "B" /\ ver = [s \in Sessions |-> 1]
  /\ accounts \in { p \in Uids \X Uids : p[1] # p[2] }
  /\ usersList = [d \in Devices |-> {}]
  /\ userId = [d \in Devices |-> <<>>]
  /\ madeRooms = {}

\* a step of the directory leaves the other screens alone
NoScreens == UNCHANGED << core, history, screen, react, chats >>

NextUsers ==
  \E d \in Devices :
    \/ FetchUsersOk(d) /\ NoScreens
    \/ FetchUsersFail(d) /\ NoScreens
    \/ (\E id \in usersList[d] : ChatPress(d, id)) /\ NoScreens
    \/ ChatBack(d) /\ NoScreens
    \/ FirstSend(d) /\ NoScreens

SpecUsers == InitUsers /\ [][NextUsers]_vars

\* ----------------------------------------------------------------- claims
\* raw = spaces, then t, then spaces; t neither starts nor ends with a space
TrimmedFrom(t, raw) ==
  /\ t # <<>> => ~IsSpace(t[1]) /\ ~IsSpace(t[Len(t)])
  /\ \E i \in 0..Len(raw) :
       /\ i + Len(t) <= Len(raw)
       /\ \A k \in 1..Len(raw) :
            IF k > i /\ k <= i + Len(t) THEN raw[k] = t[k - i]
            ELSE IsSpace(raw[k])

Ids(list) == { list[i].id : i \in 1..Len(list) }

\* C1: while the cache-enabled screen is open, the displayed list holds the
\* live copy of every message of the snapshot delivered last, and holds every
\* identifier of the cached list.
C1_MergedViewSuperset ==
  open[Viewer] =>
    /\ \A i \in 1..Len(feed) : \E j \in 1..Len(messages) : messages[j] = feed[i]
    /\ Ids(localMessages) \subseteq Ids(messages)

\* C2: the list the merge listener displays holds every identifier of the
\* cached list and of the snapshot, each exactly once, and no other.
C2_MergeIdsOnce ==
  ~due1 =>
    /\ Ids(messages) = Ids(localMessages) \cup Ids(feed)
    /\ \A i, j \in 1..Len(messages) :
         i # j => messages[i].id # messages[j].id

\* a merge of a cached list and a snapshot that share an identifier and
\* each hold one the other lacks
C2_Overlap ==
  /\ ~due1
  /\ Ids(localMessages) \cap Ids(feed) # {}
  /\ Ids(localMessages) \ Ids(feed) # {}
  /\ Ids(feed) \ Ids(localMessages) # {}
  /\ Len(messages) = 3

C12_FailedSendKeepsText ==
  hist = "failed" =>
    /\ message[Sender] = typed
    /\ ver[Sender] = 1 => Trim(typed) # <<>>
    /\ ~sending[Sender]
    /\ Trim(typed) # <<>> =>
         open[Sender] /\ pc[Sender] = "idle" /\ CanSend(Sender)

\* a send has failed after its chat room write, the text still in the buffer
C12_FailedWithText ==
  /\ hist = "failed" /\ chatRoom.exists /\ msgDocs = <<>>
  /\ message[Sender] = << " ", "h" >>

\* the number of places of list l that hold u
RECURSIVE Count(_, _)
Count(l, u) ==
  IF l = <<>> THEN 0
  ELSE (IF Head(l) = u THEN 1 ELSE 0) + Count(Tail(l), u)

\* C13: in the stored reaction map every user is in at most one emoji's
\* list, and at most once in it, whatever the interleaving of the handlers.
C13_OneReactionPerUser ==
  \A u \in Users :
    /\ \A k \in DOMAIN reactions : Count(reactions[k], u) <= 1
    /\ \A k1, k2 \in DOMAIN reactions :
         Has(reactions[k1], u) /\ Has(reactions[k2], u) => k1 = k2

\* a handler is about to write a map computed from a read that another
\* handler's write has since replaced
C13_StaleWritePending ==
  \E s \in Sessions :
    /\ rpc[s] = "update"
    /\ seen[s] # reactions
    /\ DOMAIN reactions # {}

\* C14: an undisturbed reaction of U with emoji e leaves U in e's list and
\* in no other, leaves no key with an empty list, and e is a key.
C14_ReactionResult ==
  [][ \A s \in Sessions :
        (rpc[s] = "update" /\ hist' \in {"clean", "moved"}
         /\ rpc'[s] = "idle") =>
          /\ emoji[s] \in DOMAIN reactions'
          /\ Has(reactions'[emoji[s]], user[s])
          /\ \A k \in DOMAIN reactions' :
               /\ reactions'[k] # <<>>
               /\ Has(reactions'[k], user[s]) => k = emoji[s] ]_vars

\* U reacted with one emoji and then with the other: one key, holding U
C14_SecondEmojiOnly ==
  /\ hist = "moved"
  /\ \E e \in Emojis : reactions = [k \in {e} |-> << "A" >>]

\* every call the screen has started has settled, and no snapshot is due
Settled(s) == mark[s] \in {"none", "done"} /\ ~dirty[s] /\ batch[s] = {}

NoSendRuns == \A t \in Sessions : pc[t] = "idle"

\* a batch of the viewer's listener settled in this step, as committed
BatchApplied(ids) ==
  /\ ids \in batch[Viewer]
  /\ batch'[Viewer] = batch[Viewer] \ {ids}
  /\ msgDocs' = CommitBatch(msgDocs, ids)

\* C15: read marking applied again to the snapshot it was computed from
\* changes nothing, at message level and at summary level; applied to the
\* snapshot the first marking produced it selects no message and finds no
\* summary to update.
C15_ReadMarkingIdempotent ==
  [][ LET u == user[Viewer] IN
      /\ \A ids \in batch[Viewer] :
           BatchApplied(ids) =>
             /\ CommitBatch(msgDocs', ids) = msgDocs'
             /\ ids = UnreadIds(msgDocs, u) => UnreadIds(msgDocs', u) = {}
      /\ Marked(Viewer) =>
           /\ MarkedRoom(chatRoom', u) = chatRoom'
           /\ ~SummaryUnread(chatRoom', u) ]_vars

\* the viewer has marked two messages of A and the summary, and a further
\* snapshot found nothing to mark
C15_MarkedTwice ==
  /\ open[Viewer] /\ Settled(Viewer)
  /\ Len(msgDocs) = 2
  /\ \A i \in 1..2 : msgDocs[i].senderId = "A" /\ msgDocs[i].read
  /\ chatRoom.lastMessage.read /\ Unread(chatRoom, "B") = 0

\* C16: the batch of a snapshot holds exactly the messages of the snapshot
\* that another user sent and that are unread; committing it sets read on
\* those documents and changes nothing else.
C16_MarksOnlyOthersUnread ==
  [][ LET u == user[Viewer] IN
      /\ \A ids \in batch'[Viewer] \ batch[Viewer] :
           \A i \in 1..Len(msgDocs) :
             i \in ids <=> (msgDocs[i].senderId # u /\ ~msgDocs[i].read)
      /\ (dirty[Viewer] /\ ~dirty'[Viewer] /\ open'[Viewer]
          /\ \E i \in 1..Len(msgDocs) :
                msgDocs[i].senderId # u /\ ~msgDocs[i].read)
           => batch'[Viewer] # {}
      /\ \A ids \in batch[Viewer] :
           BatchApplied(ids) =>
             /\ Len(msgDocs') = Len(msgDocs)
             /\ \A i \in 1..Len(msgDocs) :
                  /\ msgDocs'[i].text = msgDocs[i].text
                  /\ msgDocs'[i].senderId = msgDocs[i].senderId
                  /\ i \in ids => msgDocs'[i].read
                  /\ i \notin ids => msgDocs'[i].read = msgDocs[i].read
                  /\ msgDocs[i].senderId = u => msgDocs'[i] = msgDocs[i] ]_vars

\* a batch of the viewer has been committed over a collection that also
\* holds the viewer's own unread message
C16_OwnLeftUnread ==
  /\ open[Viewer] /\ Settled(Viewer)
  /\ Len(msgDocs) = 2
  /\ \E i, j \in 1..2 :
       /\ msgDocs[i].senderId = "A" /\ msgDocs[i].read
       /\ msgDocs[j].senderId = "B" /\ ~msgDocs[j].read

\* C17: opening a conversation issues both the message-level marking (the
\* listener is registered and owed a snapshot) and the summary-level marking
\* (markMessagesAsRead is started); a batch that fails leaves the summary
\* marking as it was, and a summary call that fails leaves the listener and
\* its batches as they were.
C17_BothMarkingsIssued ==
  [][ /\ (~open[Viewer] /\ open'[Viewer]) =>
           dirty'[Viewer] /\ mark'[Viewer] = "getDoc"
      /\ (batch'[Viewer] # batch[Viewer] /\ msgDocs' = msgDocs) =>
           mark'[Viewer] = mark[Viewer]
      /\ (mark[Viewer] \in {"getDoc", "update"} /\ mark'[Viewer] = "done"
          /\ chatRoom' = chatRoom) =>
           batch'[Viewer] = batch[Viewer] /\ dirty'[Viewer] = dirty[Viewer]
    ]_vars

\* C18: while no send is running, lastMessage is the newest message of the
\* collection (text and sender).
C18_LastMessageIsNewest ==
  (NoSendRuns /\ chatRoom.exists /\ Len(msgDocs) > 0) =>
    /\ chatRoom.lastMessage.text = msgDocs[Len(msgDocs)].text
    /\ chatRoom.lastMessage.senderId = msgDocs[Len(msgDocs)].senderId

\* C3: every change of unread[P] is an increase made by a send of the other
\* participant, or a reset to zero made by P's own read marking.
C3_UnreadOnlySendOrView ==
  [][ \A p \in Users :
        Unread(chatRoom', p) # Unread(chatRoom, p) =>
          \/ /\ Unread(chatRoom', p) > Unread(chatRoom, p)
             /\ \E s \in Sessions : user[s] = Peer(p) /\ Wrote(s)
          \/ /\ Unread(chatRoom', p) = 0
             /\ \E s \in Sessions : user[s] = p /\ Marked(s) ]_vars

\* C4: when the second of two sends in a row of A's screen completes, with no
\* read by B since the first began, unread[B] is its value before the first
\* send plus 2.
C4_TwoSendsAddTwo ==
  [][ (Succeeded(Sender) /\ streak' = 2) =>
        Unread(chatRoom', Peer(user[Sender])) = base + 2 ]_vars

\* C5: the send path writes the counter its own point read returned, plus
\* one, whatever the counter holds when the write arrives; two concurrent
\* sends of one sender can therefore leave two messages and one increment.
C5_WriteIsReadPlusOne ==
  [][ \A s \in Sessions :
        Wrote(s) =>
          Unread(chatRoom', Peer(user[s])) = Unread(prev[s], Peer(user[s])) + 1
    ]_vars

\* two screens of A have each completed a send into a new conversation: two
\* messages, and unread[B] = 1
C5_LostUpdate ==
  /\ user[Viewer] = "A"
  /\ \A s \in Sessions : pc[s] = "idle" /\ message[s] = <<>>
  /\ Len(msgDocs) = 2
  /\ Unread(chatRoom, "B") = 1

\* C8: a send that found no chat room creates it with participants {A, B},
\* lastMessage = (trim(t), A, unread) and unread[B] = 1, and then appends
\* exactly one message (trim(t), A, read = false).
C8_FirstSend ==
  [][ \A s \in Sessions :
        LET u == user[s] IN
        /\ (Wrote(s) /\ ~prev[s].exists) =>
             /\ chatRoom'.exists
             /\ { chatRoom'.participants[i] : i \in 1..2 } = {u, Peer(u)}
             /\ TrimmedFrom(chatRoom'.lastMessage.text, message[s])
             /\ chatRoom'.lastMessage.text # <<>>
             /\ chatRoom'.lastMessage.senderId = u
             /\ ~chatRoom'.lastMessage.read
             /\ Unread(chatRoom', Peer(u)) = 1
        /\ (pc'[s] # pc[s] /\ (pc[s] # "addDoc" \/ Aborted(s))) =>
             msgDocs' = msgDocs
        /\ (pc[s] = "addDoc" /\ pc'[s] # "addDoc" /\ ~Aborted(s)) =>
             /\ Len(msgDocs') = Len(msgDocs) + 1
             /\ SubSeq(msgDocs', 1, Len(msgDocs)) = msgDocs
             /\ TrimmedFrom(msgDocs'[Len(msgDocs')].text, message[s])
             /\ msgDocs'[Len(msgDocs')].text # <<>>
             /\ msgDocs'[Len(msgDocs')].senderId = u
             /\ ~msgDocs'[Len(msgDocs')].read ]_vars

\* A's first send has completed: the room A created and its one message
C8_FirstSendDone ==
  /\ chatRoom.exists /\ chatRoom.participants = << "A", "B" >>
  /\ Unread(chatRoom, "B") = 1
  /\ msgDocs = << [text |-> << "h" >>, senderId |-> "A", read |-> FALSE] >>
  /\ \A s \in Sessions : pc[s] = "idle"

\* C9: a message is appended only after the chat room write of its send has
\* succeeded, so a non-empty message collection has its chat room; and every
\* message is unread when it is appended.
C9_RoomBeforeMessage ==
  /\ [](Len(msgDocs) > 0 => chatRoom.exists)
  /\ [][ Len(msgDocs') > Len(msgDocs) =>
           /\ chatRoom.exists
           /\ ~msgDocs'[Len(msgDocs')].read ]_vars

\* a message has just been appended by a version 1 send
C9_Appended ==
  /\ Len(msgDocs) = 1 /\ ~msgDocs[1].read /\ chatRoom.exists
  /\ \E s \in Sessions : pc[s] = "lastMsg"

\* C10: a send that fails leaves the backend as it was when the send started.
C10_FailedSendNoTrace ==
  [][ Aborted(Sender) =>
        chatRoom' = before.room /\ msgDocs' = before.msgs ]_vars

\* the read state the viewer is promised: the other participant's messages
\* are read, in the collection and in the summary, and the counter is 0
AllRead(s) ==
  /\ \A i \in 1..Len(msgDocs) :
       msgDocs[i].senderId = Peer(user[s]) => msgDocs[i].read
  /\ chatRoom.lastMessage.senderId = Peer(user[s]) => chatRoom.lastMessage.read
  /\ Unread(chatRoom, user[s]) = 0

\* C6: once B has opened the conversation and the writes that opening
\* triggers have completed, every message of A is read, lastMessage.read is
\* true and unread[B] is 0, whatever was sent before.
C6_OpenMarksAllRead ==
  (/\ open[Viewer] /\ hist = "fresh"
   /\ Settled(Viewer) /\ NoSendRuns
   /\ chatRoom.exists)
  => AllRead(Viewer)

\* C7: when the other participant's message arrives while the viewer has the
\* conversation open, then once its snapshot is processed and the writes are
\* done the message is read, lastMessage.read is true and the viewer's
\* unread counter is 0.
C7_SnapshotMarksAllRead ==
  (/\ open[Viewer] /\ hist = "peer"
   /\ Settled(Viewer) /\ NoSendRuns
   /\ chatRoom.exists
   /\ chatRoom.lastMessage.senderId = Peer(user[Viewer])
   /\ Len(msgDocs) > 0
   /\ msgDocs[Len(msgDocs)].senderId = Peer(user[Viewer]))
  => AllRead(Viewer)

\* C19: on the cache-enabled screen, once the read of a non-empty cache
\* entry has completed, the screen shows the message list and not the
\* spinner, whether or not a live snapshot has been delivered.
C19_CacheShownBeforeLive ==
  (/\ open[Viewer] /\ ver[Viewer] = 1
   /\ load = "done"
   /\ localMessages # <<>> /\ messages # <<>>)
  => ~ShowsSpinner

\* C20: the cache key is the same for both participants' view of the
\* conversation; the entry is read when the screen opens and at no other
\* step, and that read settles once; every change of the displayed list of
\* the open screen queues a save of exactly the new list; once the save of
\* the latest change has resolved, the persisted list is the displayed list.
C20_CacheFollowsDisplay ==
  /\ [](\A u \in Users : CacheKey(u) = CacheKey(Peer(u)))
  /\ [][ /\ (load # "getItem" /\ load' = "getItem")
              <=> (~open[Viewer] /\ open'[Viewer])
         /\ load = "done" => load' # "getItem" \/ ~open[Viewer]
         /\ (messages' # messages /\ open'[Viewer]) =>
              /\ Len(saves') = Len(saves) + 1
              /\ saves'[Len(saves')].list = messages' ]_vars
  /\ [](hist = "saved" => open[Viewer] /\ stored = messages)

\* the cache was rewritten twice during one opening and holds the two
\* messages the screen displays
C20_SavedTwice ==
  /\ open[Viewer] /\ hist = "saved"
  /\ load = "done"
  /\ Len(messages) = 2 /\ stored = messages
  /\ localMessages = messages

C22_MergeKeepsPositions ==
  ~due1 =>
    LET n == Len(localMessages) IN
    /\ Len(messages) >= n
    /\ \A i \in 1..n :
         messages[i] =
           IF localMessages[i].id \in Ids(feed)
           THEN feed[FindIndex(feed, localMessages[i].id)]
           ELSE localMessages[i]
    /\ SubSeq(messages, n + 1, Len(messages)) =
         SelectSeq(feed, LAMBDA m : m.id \notin Ids(localMessages))

\* the snapshot holds a new message ahead of a changed copy of the cached
\* list's first message
C22_ReplacedAheadOfNew ==
  /\ ~due1
  /\ Len(localMessages) = 2 /\ Len(feed) = 2
  /\ feed[1].id \notin Ids(localMessages)
  /\ feed[2].id = localMessages[1].id /\ feed[2] # localMessages[1]
  /\ messages = << feed[2], localMessages[2], feed[1] >>

\* C23: the identifier A derives for the conversation with B is the one B
\* derives for the conversation with A: two chat room documents created
\* from the two sides of one pair of users never differ in identifier.
C23_ChatIdCommutes ==
  /\ \A d, e \in Devices :
       (userId[d] = accounts[e] /\ userId[e] = accounts[d])
       => DerivedId(accounts[d], userId[d]) = DerivedId(accounts[e], userId[e])
  /\ \A r, q \in madeRooms :
       { r.participants[1], r.participants[2] }
         = { q.participants[1], q.participants[2] } => r = q

\* the user whose identifier sorts second created the room, and the other
\* user shows the same conversation
C23_SecondSortedCreated ==
  /\ userId[1] = accounts[2] /\ userId[2] = accounts[1]
  /\ Less(accounts[1], accounts[2])
  /\ \E r \in madeRooms :
       /\ r.participants = << accounts[2], accounts[1] >>
       /\ r.id = accounts[1] \o << Underscore >> \o accounts[2]

\* C24: every chat room document created has two distinct participants, and
\* the list of the directory never holds the signed-in user.
C24_TwoDistinctParticipants ==
  /\ \A r \in madeRooms :
       Len(r.participants) = 2 /\ r.participants[1] # r.participants[2]
  /\ \A d \in Devices : accounts[d] \notin usersList[d]

\* C25: a screen has at most one send in flight: the lock is held exactly
\* while a send runs, a send begins only from a screen with no send running
\* and a buffer that is not empty after trimming, a call the entry guard
\* turns away changes neither the backend nor the buffer nor the lock, and
\* every stored message text is trimmed and not empty.
C25_OneSendInFlight ==
  /\ [](\A s \in Sessions : sending[s] <=> pc[s] # "idle")
  /\ [][ \A s \in Sessions :
           (pc'[s] = "getDoc" /\ (pc[s] # "getDoc" \/ sentText'[s] # sentText[s]))
           => (pc[s] = "idle" /\ ~sending[s] /\ Trim(message[s]) # <<>>) ]_vars
  /\ [][ hist' = "ignored" =>
           /\ sending[Sender] \/ Trim(message[Sender]) = <<>>
           /\ UNCHANGED << chatRoom, msgDocs, message, sending, pc >> ]_vars
  /\ [](\A i \in 1..Len(msgDocs) :
          msgDocs[i].text # <<>> /\ Trim(msgDocs[i].text) = msgDocs[i].text)
  /\ [](chatRoom.exists => Trim(chatRoom.lastMessage.text) # <<>>)

\* sendMessage was called with text in the buffer while the message of the
\* running send was being added, and returned at once
C25_PressedWhileSending ==
  /\ hist = "ignored"
  /\ sending[Sender] /\ pc[Sender] = "addDoc"
  /\ Trim(message[Sender]) # <<>>

\* the sum of the unread counters of a list of rooms
RECURSIVE SumUnread(_)
SumUnread(rooms) ==
  IF rooms = <<>> THEN 0 ELSE Head(rooms).unread + SumUnread(Tail(rooms))

\* the elements of a list
Elems(l) == { l[i] : i \in 1..Len(l) }

\* C26: a callback of the chat list works on the documents of its snapshot;
\* when it ends on a mounted screen the displayed list holds rooms of that
\* snapshot only, by lastMessage time descending, none whose partner has no
\* user document, and every room whose partner has one unless a lookup was
\* rejected; the unread total is the sum over the displayed rooms; the
\* screen stops loading.
C26_ListingOfSnapshot ==
  /\ [][ (owed /\ ~owed' /\ listOpen') =>
           IF roomDocs = <<>>
           THEN chatRooms' = <<>> /\ unreadTotal' = 0 /\ ~listLoading'
           ELSE LET r == runs'[Len(runs')] IN
                /\ Elems(r.docs) = Elems(roomDocs)
                /\ Len(r.docs) = Len(roomDocs) ]_vars
  /\ [][ \A k \in 1..Len(runs) :
           (Len(runs') < Len(runs) /\ runs' = Dropped(k) /\ runs[k].live) =>
             /\ Elems(chatRooms') \subseteq Elems(runs[k].docs)
             /\ \A i, j \in 1..Len(chatRooms') :
                  i < j => /\ chatRooms'[i].time >= chatRooms'[j].time
                           /\ chatRooms'[i] # chatRooms'[j]
             /\ \A i \in 1..Len(chatRooms') : chatRooms'[i].peer \in userDocs
             /\ hist' # "fail" =>
                  chatRooms' = SelectSeq(runs[k].docs,
                                         LAMBDA d : d.peer \in userDocs)
             /\ unreadTotal' = SumUnread(chatRooms')
             /\ ~listLoading' ]_vars

\* a snapshot of two rooms with unread messages, the partner of one without
\* a user document: one room is listed and only its counter is counted
C26_PartnerWithoutDocument ==
  /\ listOpen /\ ~listLoading /\ runs = <<>> /\ hist # "fail"
  /\ userDocs = {"C"}
  /\ latest = << RoomDoc("B", 1, 1), RoomDoc("C", 2, 1) >>
  /\ chatRooms = << RoomDoc("C", 2, 1) >>
  /\ unreadTotal = 1

\* C28: once every callback of the mounted chat list has ended and no
\* snapshot is owed, the displayed list and the unread total are those of
\* the snapshot delivered last (no lookup having been rejected).
C28_LatestSnapshotShown ==
  (listOpen /\ ~listLoading /\ runs = <<>> /\ ~owed /\ hist # "fail") =>
    /\ chatRooms = SelectSeq(SortedDocs(latest), LAMBDA d : d.peer \in userDocs)
    /\ unreadTotal = SumUnread(chatRooms)

\* the cache-enabled screen has nothing left to do: no cache write waits
\* and no snapshot is due to either listener
Quiescent == saves = <<>> /\ ~due1 /\ ~dirty[Viewer] /\ load # "getItem"

\* C27: either the cache-enabled screen is closed again and again, or from
\* some point on it is closed or has nothing left to do.
C27_ScreenSettles ==
  \/ []<>(~open[Viewer])
  \/ <>[](~open[Viewer] \/ Quiescent)

\* C29: when the first sends of A and of B both read the chat room as
\* absent, then once both have completed the room exists, two messages are
\* stored, and the unread counter of each user is 1.
C29_BothFirstSendsCounted ==
  (hist = "both" /\ NoSendRuns /\ Len(msgDocs) = 2) =>
    /\ chatRoom.exists
    /\ Unread(chatRoom, "A") = 1
    /\ Unread(chatRoom, "B") = 1

\* user v is in the list of emoji e of the reactions map m
ReactedWith(m, v, e) == e \in DOMAIN m /\ Has(m[e], v)

\* C30: a reaction update of a screen that was written leaves, for every
\* user other than the one signed in on that screen, the emoji lists that
\* user is in as they were.
C30_OtherUsersKept ==
  [][ \A s \in Sessions :
        (rpc[s] = "update" /\ rpc'[s] = "idle" /\ hist' # "fresh") =>
          \A v \in Users \ {user[s]} : \A e \in Emojis :
            ReactedWith(reactions', v, e) <=> ReactedWith(reactions, v, e)
    ]_vars

====
